---- MODULE Spec2Model ----
(***************************************************************************)
(* Model of the embedding cache, the embedding service and the similarity  *)
(* ranker of ai-chat-system (backend/ai_service).                          *)
(*                                                                         *)
(* Spec     : two threads call EmbeddingService concurrently, one call     *)
(*            each (t1 either operation, t2 get_embedding); every ORM      *)
(*            access (get, save, update_or_create) and every provider call *)
(*            is one step.                                                 *)
(* SpecSeq  : one caller, get_embedding calls one after the other; keeps   *)
(*            the previous call's result to compare two calls in a row.    *)
(* SpecRank : find_similar_texts applied to bounded inputs.                *)
(***************************************************************************)
EXTENDS Integers, Sequences, FiniteSets, TLC

VARIABLES cache, clock, nextId, apiCalls, budget, th, hist, rank, qry, svc, intel,
          adp, convo

vars == <<cache, clock, nextId, apiCalls, budget, th, hist, rank, qry, svc, intel, adp, convo>>

(***************************************************************************)
(* Bounds of the model.                                                    *)
(***************************************************************************)
MaxOps == 3
MaxBatch == 2

Threads == {"t1", "t2"}
Models == {"m1", "m2"}
Variants == {"x", "y"}
Chars == {" ", "a", "b"}
Texts == {<< >>, <<" ">>, <<"a">>, <<"b">>}
ErrorMsgs == {<<"429">>, <<"Quota", "exceeded">>, <<"Rate limit">>, <<"timeout">>}

None == << >>

(***************************************************************************)
(* Text helpers.                                                           *)
(***************************************************************************)
RECURSIVE LStrip(_)
LStrip(t) == IF t # << >> /\ Head(t) = " " THEN LStrip(Tail(t)) ELSE t

RECURSIVE RStrip(_)
RStrip(t) ==
    IF t # << >> /\ t[Len(t)] = " " THEN RStrip(SubSeq(t, 1, Len(t) - 1)) ELSE t

Strip(t) == RStrip(LStrip(t))

\* `not text` alone
IsBlankNoStrip(t) == t = << >>

\* `not text or not text.strip()`
IsBlank(t) == t = << >> \/ Strip(t) = << >>

CharCode(c) == CASE c = " " -> 1 [] c = "a" -> 2 [] c = "b" -> 3

\* _get_text_hash: a digest of the exact characters of the text
RECURSIVE _get_text_hash(_)
_get_text_hash(t) ==
    IF t = << >> THEN 7
    ELSE _get_text_hash(SubSeq(t, 1, Len(t) - 1)) * 4 + CharCode(t[Len(t)])

PreviewLen == 200

\* text[:200]
Preview(t) == SubSeq(t, 1, IF Len(t) < PreviewLen THEN Len(t) ELSE PreviewLen)

\* str.lower(), word by word
Lower(w) ==
    CASE w = "Quota" -> "quota"
      [] w = "Rate limit" -> "rate limit"
      [] w = "What" -> "what"
      [] w = "Pricing" -> "pricing"
      [] w = "Cannot be answered" -> "cannot be answered"
      [] w = "Not available" -> "not available"
      [] w = "Positive" -> "positive"
      [] OTHER -> w

Contains(msg, w) == \E i \in 1..Len(msg) : msg[i] = w
ContainsLower(msg, w) == \E i \in 1..Len(msg) : Lower(msg[i]) = w

\* the quota test of the except branch
IsQuotaError(msg) ==
    Contains(msg, "429") \/ ContainsLower(msg, "quota") \/ ContainsLower(msg, "rate limit")

\* what genai.embed_content returns for a text under a model
Vec(t, m, k) == <<_get_text_hash(t), m, k>>

(***************************************************************************)
(* The EmbeddingCache table.                                               *)
(***************************************************************************)
\* EmbeddingCache.objects.filter(text_hash=h, model=m)
Matching(h, m) == {r \in cache : r.text_hash = h /\ r.model = m}

\* EmbeddingCache.objects.filter(text_hash=h)
ByHash(h) == {r \in cache : r.text_hash = h}

PickRow(S) == CHOOSE r \in S : \A q \in S : r.id <= q.id

\* a save that writes last_accessed only
SaveFieldsNoCount(obj, now) ==
    {IF r.id = obj.id THEN [r EXCEPT !.last_accessed = now] ELSE r : r \in cache}

\* Model.save(update_fields=['access_count', 'last_accessed']) of a loaded
\* object: UPDATE ... WHERE id = obj.id
SaveFields(obj, now) ==
    {IF r.id = obj.id
        THEN [r EXCEPT !.access_count = obj.access_count, !.last_accessed = now]
        ELSE r : r \in cache}

\* the row update_or_create(text_hash=h, defaults=...) writes
NewRow(id, h, t, m, e, created, now) ==
    [id |-> id, text_hash |-> h, text_preview |-> Preview(t), embedding |-> e,
     model |-> m, created_at |-> created, last_accessed |-> now, access_count |-> 1]

\* a create in place of update_or_create
create_always(h, t, m, e, now) ==
    <<cache \cup {NewRow(nextId, h, t, m, e, now, now)}, nextId + 1>>

\* EmbeddingCache.objects.update_or_create(text_hash=h, defaults={...}):
\* the row with this text_hash is updated when there is one (text_hash is
\* unique), else a row is created.  Result: <<cache', nextId'>>.
update_or_create(h, t, m, e, now) ==
    IF ByHash(h) # {}
        THEN LET old == PickRow(ByHash(h))
             IN  <<(cache \ {old}) \cup {NewRow(old.id, h, t, m, e, old.created_at, now)},
                   nextId>>
        ELSE <<cache \cup {NewRow(nextId, h, t, m, e, now, now)}, nextId + 1>>

(***************************************************************************)
(* Threads.                                                                *)
(***************************************************************************)
Idle ==
    [pc |-> "idle", op |-> "none", model |-> "m1", use_cache |-> TRUE,
     texts |-> << >>, i |-> 0, cacheObj |-> None, now |-> 0,
     embeddings |-> << >>, indices_to_embed |-> << >>, idx |-> 0,
     ret |-> None, found |-> {}, looked |-> {}, called |-> << >>, wrote |-> {},
     log |-> "none", okAt |-> {}, read |-> {}]

NoPrev == [valid |-> FALSE]
NoHist == [prev |-> NoPrev, made |-> {}, cache0 |-> {}]
NoRank == [pc |-> "off"]
NoQry == [pc |-> "off"]
NoSvc == [pc |-> "off"]
NoIntel == [pc |-> "off"]
NoAdp == [pc |-> "off"]
NoConv == [pc |-> "off"]

\* the table as an earlier get_embedding of "a" under m1 left it
SeedRow == NewRow(0, _get_text_hash(<<"a">>), <<"a">>, "m1", Vec(<<"a">>, "m1", "x"), 0, 0)

Init ==
    /\ cache \in {{}, {SeedRow}}
    /\ clock = 1
    /\ nextId = 1
    /\ apiCalls = 0
    /\ budget = [p \in Threads |-> 1]
    /\ th = [p \in Threads |-> Idle]
    /\ hist = NoHist
    /\ rank = NoRank
    /\ qry = NoQry
    /\ svc = NoSvc
    /\ intel = NoIntel
    /\ adp = NoAdp
    /\ convo = NoConv

Free(p) == th[p].pc \in {"idle", "done"}

Set(p, rec) == th' = [th EXCEPT ![p] = rec]

\* the text a thread is working on
CurText(p) == th[p].texts[th[p].i]

(***************************************************************************)
(* get_embedding                                                           *)
(***************************************************************************)
\* lines 35-38: entry, empty-text return
GetEmbedding(p) ==
    /\ Free(p)
    /\ budget[p] > 0
    /\ budget' = [budget EXCEPT ![p] = @ - 1]
    /\ \E t \in Texts, m \in Models, uc \in BOOLEAN :
         Set(p, [Idle EXCEPT !.op = "get_embedding", !.model = m, !.use_cache = uc,
                             !.texts = <<t>>, !.i = 1,
                             !.pc = IF IsBlank(t) THEN "done"
                                    ELSE IF uc THEN "ge_get" ELSE "ge_embed"])
    /\ UNCHANGED <<cache, clock, nextId, apiCalls>>

\* a lookup whose hit does not end the call
GeGetFallThrough(p) ==
    /\ th[p].pc = "ge_get"
    /\ LET S == Matching(_get_text_hash(CurText(p)), th[p].model)
       IN  IF S # {}
             THEN Set(p, [th[p] EXCEPT !.cacheObj = PickRow(S), !.pc = "ge_embed",
                                       !.found = {1}, !.looked = {1},
                                       !.read = {<<1, PickRow(S).embedding>>}])
             ELSE Set(p, [th[p] EXCEPT !.pc = "ge_embed", !.looked = {1}])
    /\ UNCHANGED <<cache, clock, nextId, apiCalls, budget>>

\* line 43: EmbeddingCache.objects.get(text_hash=..., model=self.model)
GeGet(p) ==
    /\ th[p].pc = "ge_get"
    /\ LET S == Matching(_get_text_hash(CurText(p)), th[p].model)
       IN  IF S # {}
             THEN Set(p, [th[p] EXCEPT !.cacheObj = PickRow(S), !.pc = "ge_touch",
                                       !.found = {1}, !.looked = {1},
                                       !.read = {<<1, PickRow(S).embedding>>}])
             ELSE Set(p, [th[p] EXCEPT !.pc = "ge_embed", !.looked = {1}])
    /\ UNCHANGED <<cache, clock, nextId, apiCalls, budget>>

\* line 44 and the pre_save of line 45: access_count += 1 on the loaded object,
\* auto_now sets last_accessed to the current time
GeTouch(p) ==
    /\ th[p].pc = "ge_touch"
    /\ Set(p, [th[p] EXCEPT !.cacheObj.access_count = @ + 1, !.now = clock,
                            !.pc = "ge_save"])
    /\ clock' = clock + 1
    /\ UNCHANGED <<cache, nextId, apiCalls, budget>>

\* line 45-46: the UPDATE of cache.save(...) and the return of cache.embedding
GeSave(p) ==
    /\ th[p].pc = "ge_save"
    /\ cache' = SaveFields(th[p].cacheObj, th[p].now)
    /\ Set(p, [th[p] EXCEPT !.ret = th[p].cacheObj.embedding, !.wrote = {1},
                            !.pc = "done"])
    /\ UNCHANGED <<clock, nextId, apiCalls, budget>>

\* a success that goes on to the update_or_create whatever use_cache is
GeEmbedOkStores(p) ==
    /\ th[p].pc = "ge_embed"
    /\ apiCalls' = apiCalls + 1
    /\ \E k \in Variants :
         Set(p, [th[p] EXCEPT !.embeddings = <<Vec(CurText(p), th[p].model, k)>>,
                              !.called = Append(@, 1), !.okAt = {1}, !.pc = "ge_store"])
    /\ UNCHANGED <<cache, clock, nextId, budget>>

\* lines 52-58: genai.embed_content succeeds
GeEmbedOk(p) ==
    /\ th[p].pc = "ge_embed"
    /\ apiCalls' = apiCalls + 1
    /\ \E k \in Variants :
         LET e == Vec(CurText(p), th[p].model, k)
         IN  IF th[p].use_cache
               THEN Set(p, [th[p] EXCEPT !.embeddings = <<e>>, !.called = Append(@, 1),
                                         !.okAt = {1}, !.pc = "ge_store"])
               ELSE Set(p, [th[p] EXCEPT !.embeddings = <<e>>, !.called = Append(@, 1),
                                         !.okAt = {1}, !.ret = e, !.pc = "done"])
    /\ UNCHANGED <<cache, clock, nextId, budget>>

\* lines 52, 74-84: genai.embed_content raises
GeEmbedFail(p) ==
    /\ th[p].pc = "ge_embed"
    /\ apiCalls' = apiCalls + 1
    /\ \E msg \in ErrorMsgs :
         Set(p, [th[p] EXCEPT !.called = Append(@, 1), !.ret = None,
                              !.log = IF IsQuotaError(msg) THEN "quota" ELSE "error",
                              !.pc = "done"])
    /\ UNCHANGED <<cache, clock, nextId, budget>>

\* the return of the embedding without the update_or_create
GeStoreNothing(p) ==
    /\ th[p].pc = "ge_store"
    /\ Set(p, [th[p] EXCEPT !.ret = th[p].embeddings[1], !.pc = "done"])
    /\ UNCHANGED <<cache, clock, nextId, apiCalls, budget>>

\* lines 61-72: update_or_create and the return of the embedding
GeStore(p) ==
    /\ th[p].pc = "ge_store"
    /\ LET e == th[p].embeddings[1]
           r == update_or_create(_get_text_hash(CurText(p)), CurText(p), th[p].model,
                                 e, clock)
       IN  /\ cache' = r[1]
           /\ nextId' = r[2]
           /\ Set(p, [th[p] EXCEPT !.ret = e, !.wrote = {1}, !.pc = "done"])
    /\ clock' = clock + 1
    /\ UNCHANGED <<apiCalls, budget>>

(***************************************************************************)
(* get_embeddings_batch                                                    *)
(***************************************************************************)
RECURSIVE SeqsUpTo(_, _)
SeqsUpTo(S, n) ==
    IF n = 0 THEN {<< >>}
    ELSE LET R == SeqsUpTo(S, n - 1)
         IN  R \cup {Append(s, x) : s \in {r \in R : Len(r) = n - 1}, x \in S}

BatchInputs == SeqsUpTo(Texts, MaxBatch)

\* end of one round of the first loop (lines 101-122): next text, or on to
\* the second loop (line 125), or the return of line 154
ScanNext(rec) ==
    IF rec.i < Len(rec.texts) THEN [rec EXCEPT !.i = @ + 1, !.pc = "b_scan"]
    ELSE IF rec.indices_to_embed # << >>
            THEN [rec EXCEPT !.i = @ + 1, !.idx = 1, !.pc = "b_embed"]
            ELSE [rec EXCEPT !.i = @ + 1, !.ret = rec.embeddings, !.pc = "done"]

\* end of one round of the second loop (lines 127-149)
EmbedNext(rec) ==
    IF rec.idx < Len(rec.indices_to_embed) THEN [rec EXCEPT !.idx = @ + 1, !.pc = "b_embed"]
    ELSE [rec EXCEPT !.idx = @ + 1, !.ret = rec.embeddings, !.pc = "done"]

\* lines 97-99: entry
GetEmbeddingsBatch(p) ==
    /\ Free(p)
    /\ budget[p] > 0
    /\ budget' = [budget EXCEPT ![p] = @ - 1]
    /\ \E ts \in BatchInputs, m \in Models, uc \in BOOLEAN :
         Set(p, [Idle EXCEPT !.op = "get_embeddings_batch", !.model = m,
                             !.use_cache = uc, !.texts = ts,
                             !.i = IF ts = << >> THEN 0 ELSE 1,
                             !.pc = IF ts = << >> THEN "done" ELSE "b_scan"])
    /\ UNCHANGED <<cache, clock, nextId, apiCalls>>

\* lines 102-104: an empty text gets None
BScanBlank(p) ==
    /\ th[p].pc = "b_scan"
    /\ IsBlank(CurText(p))
    /\ Set(p, ScanNext([th[p] EXCEPT !.embeddings = Append(@, None)]))
    /\ UNCHANGED <<cache, clock, nextId, apiCalls, budget>>

\* lines 109-111: the cache has the text
BScanHit(p) ==
    /\ th[p].pc = "b_scan"
    /\ ~IsBlank(CurText(p))
    /\ th[p].use_cache
    /\ LET S == Matching(_get_text_hash(CurText(p)), th[p].model)
       IN  /\ S # {}
           /\ Set(p, [th[p] EXCEPT !.cacheObj = PickRow(S), !.pc = "b_touch",
                                   !.found = @ \cup {th[p].i},
                                   !.looked = @ \cup {th[p].i},
                                   !.read = @ \cup {<<th[p].i, PickRow(S).embedding>>}])
    /\ UNCHANGED <<cache, clock, nextId, apiCalls, budget>>

\* lines 109-111, 116-122: the cache is not used or has no entry; the text is
\* marked for the second loop
BScanMiss(p) ==
    /\ th[p].pc = "b_scan"
    /\ ~IsBlank(CurText(p))
    /\ th[p].use_cache => Matching(_get_text_hash(CurText(p)), th[p].model) = {}
    /\ Set(p, ScanNext([th[p] EXCEPT
                          !.looked = IF th[p].use_cache THEN @ \cup {th[p].i} ELSE @,
                          !.indices_to_embed = Append(@, th[p].i),
                          !.embeddings = Append(@, None)]))
    /\ UNCHANGED <<cache, clock, nextId, apiCalls, budget>>

\* line 112 and the pre_save of line 113
BTouch(p) ==
    /\ th[p].pc = "b_touch"
    /\ Set(p, [th[p] EXCEPT !.cacheObj.access_count = @ + 1, !.now = clock,
                            !.pc = "b_save"])
    /\ clock' = clock + 1
    /\ UNCHANGED <<cache, nextId, apiCalls, budget>>

\* lines 113-115: the UPDATE of cache.save(...), the cached vector is appended
BSave(p) ==
    /\ th[p].pc = "b_save"
    /\ cache' = SaveFields(th[p].cacheObj, th[p].now)
    /\ Set(p, ScanNext([th[p] EXCEPT
                          !.embeddings = Append(@, th[p].cacheObj.embedding),
                          !.wrote = @ \cup {th[p].i}]))
    /\ UNCHANGED <<clock, nextId, apiCalls, budget>>

\* the text of the current round of the second loop
EmbedPos(p) == th[p].indices_to_embed[th[p].idx]
EmbedText(p) == th[p].texts[EmbedPos(p)]

\* the embedding written at the index of the second loop
BEmbedOkAtIdx(p) ==
    /\ th[p].pc = "b_embed"
    /\ apiCalls' = apiCalls + 1
    /\ \E k \in Variants :
         LET rec == [th[p] EXCEPT
                       !.embeddings[th[p].idx] = Vec(EmbedText(p), th[p].model, k),
                       !.called = Append(@, EmbedPos(p)),
                       !.okAt = @ \cup {EmbedPos(p)}]
         IN  IF th[p].use_cache
               THEN Set(p, [rec EXCEPT !.pc = "b_store"])
               ELSE Set(p, EmbedNext(rec))
    /\ UNCHANGED <<cache, clock, nextId, budget>>

\* lines 128-136: genai.embed_content succeeds
BEmbedOk(p) ==
    /\ th[p].pc = "b_embed"
    /\ apiCalls' = apiCalls + 1
    /\ \E k \in Variants :
         LET rec == [th[p] EXCEPT
                       !.embeddings[EmbedPos(p)] = Vec(EmbedText(p), th[p].model, k),
                       !.called = Append(@, EmbedPos(p)),
                       !.okAt = @ \cup {EmbedPos(p)}]
         IN  IF th[p].use_cache
               THEN Set(p, [rec EXCEPT !.pc = "b_store"])
               ELSE Set(p, EmbedNext(rec))
    /\ UNCHANGED <<cache, clock, nextId, budget>>

\* lines 128, 151-154: genai.embed_content raises, the loop is left
BEmbedFail(p) ==
    /\ th[p].pc = "b_embed"
    /\ apiCalls' = apiCalls + 1
    /\ \E msg \in ErrorMsgs :
         Set(p, [th[p] EXCEPT !.called = Append(@, EmbedPos(p)),
                              !.ret = th[p].embeddings, !.log = "batch error",
                              !.pc = "done"])
    /\ UNCHANGED <<cache, clock, nextId, budget>>

\* lines 139-149: update_or_create
BStore(p) ==
    /\ th[p].pc = "b_store"
    /\ LET r == update_or_create(_get_text_hash(EmbedText(p)), EmbedText(p),
                                 th[p].model, th[p].embeddings[EmbedPos(p)], clock)
       IN  /\ cache' = r[1]
           /\ nextId' = r[2]
           /\ Set(p, EmbedNext([th[p] EXCEPT !.wrote = @ \cup {EmbedPos(p)}]))
    /\ clock' = clock + 1
    /\ UNCHANGED <<apiCalls, budget>>

Frame == UNCHANGED <<hist, rank, qry, svc, intel, adp, convo>>

Next ==
    \/ \E p \in Threads : GetEmbedding(p) /\ Frame
    \/ \E p \in Threads : GeGet(p) /\ Frame
    \/ \E p \in Threads : GeTouch(p) /\ Frame
    \/ \E p \in Threads : GeSave(p) /\ Frame
    \/ \E p \in Threads : GeEmbedOk(p) /\ Frame
    \/ \E p \in Threads : GeEmbedFail(p) /\ Frame
    \/ \E p \in Threads : GeStore(p) /\ Frame
    \/ GetEmbeddingsBatch("t1") /\ Frame
    \/ \E p \in Threads : BScanBlank(p) /\ Frame
    \/ \E p \in Threads : BScanHit(p) /\ Frame
    \/ \E p \in Threads : BScanMiss(p) /\ Frame
    \/ \E p \in Threads : BTouch(p) /\ Frame
    \/ \E p \in Threads : BSave(p) /\ Frame
    \/ \E p \in Threads : BEmbedOk(p) /\ Frame
    \/ \E p \in Threads : BEmbedFail(p) /\ Frame
    \/ \E p \in Threads : BStore(p) /\ Frame

Spec == Init /\ [][Next]_vars

(***************************************************************************)
(* One caller: calls follow one another.  hist keeps, from the start of a  *)
(* call on: what the previous call returned and left in the table (prev),  *)
(* the (text, model) pairs stored by earlier calls (made) and the table as *)
(* the call found it (cache0).                                             *)
(***************************************************************************)
\* access_count of the entry of a text, 0 when there is none
CountOf(t) ==
    IF ByHash(_get_text_hash(t)) = {} THEN 0
    ELSE PickRow(ByHash(_get_text_hash(t))).access_count

Summary(rec) ==
    IF rec.pc = "done" /\ rec.op = "get_embedding" /\ ~IsBlank(rec.texts[1])
        THEN [valid |-> TRUE, text |-> rec.texts[1], model |-> rec.model,
              use_cache |-> rec.use_cache, ret |-> rec.ret, ok |-> rec.okAt # {},
              calls |-> Len(rec.called),
              count |-> CountOf(rec.texts[1])]
        ELSE NoPrev

\* the (text, model) pairs whose entry a finished call created or rewrote
Stored(rec) ==
    IF rec.pc = "done" /\ rec.op = "get_embedding" /\ rec.use_cache /\ rec.okAt # {}
        THEN {<<rec.texts[1], rec.model>>}
        ELSE {}

InitSeq ==
    /\ cache \in {{}, {SeedRow}}
    /\ clock = 1
    /\ nextId = 1
    /\ apiCalls = 0
    /\ budget = [p \in Threads |-> IF p = "t1" THEN MaxOps ELSE 0]
    /\ th = [p \in Threads |-> Idle]
    /\ hist = [prev |-> NoPrev, made |-> {<<<<"a">>, r.model>> : r \in cache},
               cache0 |-> cache]
    /\ rank = NoRank
    /\ qry = NoQry
    /\ svc = NoSvc
    /\ intel = NoIntel
    /\ adp = NoAdp
    /\ convo = NoConv

NextSeq ==
    \/ /\ GetEmbedding("t1")
       /\ hist' = [prev |-> Summary(th["t1"]),
                   made |-> hist.made \cup Stored(th["t1"]),
                   cache0 |-> cache]
       /\ UNCHANGED <<rank, qry, svc, intel, adp, convo>>
    \/ GeGet("t1") /\ Frame
    \/ GeTouch("t1") /\ Frame
    \/ GeSave("t1") /\ Frame
    \/ GeEmbedOk("t1") /\ Frame
    \/ GeEmbedFail("t1") /\ Frame
    \/ GeStore("t1") /\ Frame

SpecSeq == InitSeq /\ [][NextSeq]_vars

(***************************************************************************)
(* find_similar_texts.  Similarities are kept in hundredths; the vectors   *)
(* of RankVecs have whole-number norms, so the cosine is exact.            *)
(***************************************************************************)
MaxCands == 4

RankVecs == {<<1, 0>>, <<0, 1>>, <<3, 4>>, <<-1, 0>>}
Queries == {<<4, 3>>, <<1, 0>>, None}
TopKs == {0, 1, 2, 3, 5}
Thresholds == {50, 60, 70}

Dot(a, b) == a[1] * b[1] + a[2] * b[2]

Norm(a) == CHOOSE r \in 0..(Dot(a, a)) : r * r = Dot(a, a)

\* float(cosine_similarity(vec1, vec2)[0][0]), times 100; a zero vector
\* gives 0
Cosine100(a, b) ==
    IF Norm(a) * Norm(b) = 0 THEN 0 ELSE (100 * Dot(a, b)) \div (Norm(a) * Norm(b))

\* lines 200-211: the candidates with a vector and similarity >= threshold,
\* in input order
RECURSIVE Qualifying(_, _, _)
Qualifying(q, cands, threshold) ==
    IF cands = << >> THEN << >>
    ELSE LET c == Head(cands)
             rest == Qualifying(q, Tail(cands), threshold)
         IN  IF c.embedding = None THEN rest
             ELSE IF Cosine100(q, c.embedding) >= threshold
                     THEN <<[id |-> c.id, embedding |-> c.embedding,
                             similarity |-> Cosine100(q, c.embedding)]>> \o rest
                     ELSE rest

\* x goes in front of the elements it ties with: a sort that is not stable
RECURSIVE InsertDescUnstable(_, _)
InsertDescUnstable(sorted, x) ==
    IF sorted = << >> THEN <<x>>
    ELSE IF Head(sorted).similarity > x.similarity
            THEN <<Head(sorted)>> \o InsertDescUnstable(Tail(sorted), x)
            ELSE <<x>> \o sorted

\* x goes behind every element that does not sort after it
RECURSIVE InsertDesc(_, _)
InsertDesc(sorted, x) ==
    IF sorted = << >> THEN <<x>>
    ELSE IF Head(sorted).similarity >= x.similarity
            THEN <<Head(sorted)>> \o InsertDesc(Tail(sorted), x)
            ELSE <<x>> \o sorted

\* no sort
SortDescNone(rs) == rs

\* line 214: results.sort(key=similarity, reverse=True), a stable sort
RECURSIVE SortDesc(_)
SortDesc(rs) ==
    IF rs = << >> THEN << >>
    ELSE InsertDesc(SortDesc(SubSeq(rs, 1, Len(rs) - 1)), rs[Len(rs)])

\* results[:top_k] for top_k >= 0
Slice(rs, k) == SubSeq(rs, 1, IF k < Len(rs) THEN k ELSE Len(rs))

find_similar_texts(q, cands, top_k, threshold) ==
    IF q = None \/ cands = << >> THEN << >>
    ELSE Slice(SortDesc(Qualifying(q, cands, threshold)), top_k)

\* candidate lists: position i carries id i
CandLists ==
    {[i \in 1..Len(vs) |-> [id |-> i, embedding |-> vs[i]]] :
        vs \in SeqsUpTo(RankVecs \cup {None}, MaxCands)}

InitRank ==
    /\ cache = {}
    /\ clock = 1
    /\ nextId = 1
    /\ apiCalls = 0
    /\ budget = [p \in Threads |-> 0]
    /\ th = [p \in Threads |-> Idle]
    /\ hist = NoHist
    /\ rank \in {[pc |-> "call", query |-> q, candidates |-> cs, top_k |-> k,
                  threshold |-> t, results |-> << >>] :
                    q \in Queries, cs \in CandLists, k \in TopKs, t \in Thresholds}
    /\ qry = NoQry
    /\ svc = NoSvc
    /\ intel = NoIntel
    /\ adp = NoAdp
    /\ convo = NoConv

FindSimilarTexts ==
    /\ rank.pc = "call"
    /\ rank' = [rank EXCEPT !.pc = "done",
                            !.results = find_similar_texts(rank.query, rank.candidates,
                                                           rank.top_k, rank.threshold)]
    /\ UNCHANGED <<cache, clock, nextId, apiCalls, budget, th, hist, qry, svc, intel, adp, convo>>

NextRank == FindSimilarTexts

SpecRank == InitRank /\ [][NextRank]_vars

(***************************************************************************)
(* IntelligenceService.query_conversations and _keyword_based_query, one   *)
(* call.  A text is the sequence of its words.  One get_embedding call of  *)
(* the single caller is one step: a hit when the text is cached, else one  *)
(* provider call that succeeds (and caches the vector) or fails (None).    *)
(* Similarities and confidences are in hundredths.                         *)
(***************************************************************************)
MaxConvs == 2

\* conv.get('messages', [])[:10]
MsgWindow == 10
\* threshold=0.5
QueryThreshold == 50
\* 'confidence': 0.5 of the keyword path
KeywordConfidence == 50
\* conv['score'] / 10.0
ScoreScale == 10

ErrorSummary == <<"Error", "generating", "summary">>

NoPastAnswer == <<"No past conversations found.">>
NoRelevantAnswer == <<"No relevant conversations found for your query.">>
ErrorAnswer == <<"Error generating answer.">>
RefusalAnswer == <<"I couldn't find specific information about the query">>

\* a query of eleven distinct words
LongQuery == <<"how", "do", "i", "reset", "my", "password", "on", "the", "new",
               "billing", "portal">>

QueryTexts == {<<"What", "Pricing">>, <<"lunch">>, LongQuery}
QTopKs == {0, 1, 2}

\* conversations as the view hands them over: summary and message contents
ConvKinds ==
    {[summary |-> <<"Pricing", "tiers">>, messages |-> << >>],
     [summary |-> ErrorSummary, messages |-> << <<"pricing">> >>],
     [summary |-> << >>, messages |-> << <<"lunch">>, <<"menu">> >>],
     [summary |-> << >>, messages |-> << >>],
     [summary |-> <<"Error", "timeout">>, messages |-> << <<"weather">> >>],
     [summary |-> << >>, messages |-> <<LongQuery>>]}

\* conversations_data: position i carries id i
ConvLists ==
    {[i \in 1..Len(ks) |-> [id |-> i, summary |-> ks[i].summary,
                            messages |-> ks[i].messages]] :
        ks \in SeqsUpTo(ConvKinds, MaxConvs)}

\* what the chat provider may answer
Contents == {<<"Three tiers">>, <<"That", "Cannot be answered">>,
             <<"Not available">>}

\* the vector the embedding provider gives a text
ProviderVec(t) ==
    CASE t = <<"What", "Pricing">> -> <<4, 3>>
      [] t = <<"Pricing", "tiers">> -> <<3, 4>>
      [] t = <<"pricing">> -> <<1, 0>>
      [] t = <<"weather">> -> <<-1, 0>>
      [] OTHER -> <<0, 1>>

\* summary.startswith('Error')
StartsWithError(summary) == summary # << >> /\ Head(summary) = "Error"

\* line 280: summary and summary != 'Error generating summary' and not
\* summary.startswith('Error')
GoodSummary(summary) ==
    summary # << >> /\ summary # ErrorSummary /\ ~StartsWithError(summary)

FirstN(s, n) == SubSeq(s, 1, IF Len(s) < n THEN Len(s) ELSE n)

\* ' '.join(contents)
RECURSIVE JoinWords(_)
JoinWords(msgs) ==
    IF msgs = << >> THEN << >> ELSE Head(msgs) \o JoinWords(Tail(msgs))

\* lines 279-288
TextToEmbed(conv) ==
    IF GoodSummary(conv.summary) THEN conv.summary
    ELSE JoinWords(FirstN(conv.messages, MsgWindow))

\* set(text.lower().split())
LowerWords(t) == {Lower(t[i]) : i \in 1..Len(t)}

\* lines 549-552: an error summary counts as no summary
KeywordSummary(conv) ==
    IF conv.summary # << >>
       /\ (conv.summary = ErrorSummary \/ StartsWithError(conv.summary))
        THEN << >> ELSE conv.summary

\* lines 554-562
Matches(query, conv) ==
    Cardinality(LowerWords(query)
                \cap (LowerWords(KeywordSummary(conv))
                      \cup LowerWords(JoinWords(FirstN(conv.messages, MsgWindow)))))

\* lines 548-571: the conversations with a match, in input order
RECURSIVE Scored(_, _)
Scored(query, convs) ==
    IF convs = << >> THEN << >>
    ELSE IF Matches(query, Head(convs)) > 0
            THEN <<[id |-> Head(convs).id, score |-> Matches(query, Head(convs))]>>
                 \o Scored(query, Tail(convs))
            ELSE Scored(query, Tail(convs))

RECURSIVE InsertByScore(_, _)
InsertByScore(sorted, x) ==
    IF sorted = << >> THEN <<x>>
    ELSE IF Head(sorted).score >= x.score
            THEN <<Head(sorted)>> \o InsertByScore(Tail(sorted), x)
            ELSE <<x>> \o sorted

\* line 574: sort(key=score, reverse=True), a stable sort
RECURSIVE SortByScore(_)
SortByScore(rs) ==
    IF rs = << >> THEN << >>
    ELSE InsertByScore(SortByScore(SubSeq(rs, 1, Len(rs) - 1)), rs[Len(rs)])

\* lines 545-575
KeywordRelated(query, convs, top_k) == Slice(SortByScore(Scored(query, convs)), top_k)

\* line 352: the refusal phrases, looked for in answer.lower()
IsRefusal(answer) ==
    \/ ContainsLower(answer, "cannot be answered")
    \/ ContainsLower(answer, "not available")
    \/ ContainsLower(answer, "no information")

\* a result dict; search_method "none" stands for the absent key
QResult(answer, related, confidence, method) ==
    [answer |-> answer, related_conversations |-> related,
     confidence |-> confidence, search_method |-> method]

\* the related conversations listed from the last to the first
SemanticRelatedReversed(similar) ==
    [k \in 1..Len(similar) |-> [id |-> similar[Len(similar) + 1 - k].id,
                                similarity |-> similar[Len(similar) + 1 - k].similarity]]

\* lines 357-365
SemanticRelated(similar) ==
    [k \in 1..Len(similar) |-> [id |-> similar[k].id,
                                similarity |-> similar[k].similarity]]

\* lines 616-624
KeywordRelatedOut(related) ==
    [k \in 1..Len(related) |-> [id |-> related[k].id,
                                similarity |-> related[k].score * ScoreScale]]

NoResult == QResult(None, << >>, 0, "none")

QueryInputs ==
    {[pc |-> "call", query |-> q, convs |-> cs, top_k |-> k, cached |-> c,
      qvec |-> None, i |-> 0, candidates |-> << >>, similar |-> << >>,
      related |-> << >>, result |-> NoResult, path |-> "none", ranked |-> 0,
      convEmbeds |-> 0, provCalls |-> 0, provOk |-> 0, chat |-> "none"] :
        q \in QueryTexts, cs \in ConvLists, k \in QTopKs,
        c \in SUBSET {<<"What", "Pricing">>, <<"lunch">>, <<"Pricing", "tiers">>}}

InitQuery ==
    /\ cache = {}
    /\ clock = 1
    /\ nextId = 1
    /\ apiCalls = 0
    /\ budget = [p \in Threads |-> 0]
    /\ th = [p \in Threads |-> Idle]
    /\ hist = NoHist
    /\ rank = NoRank
    /\ qry \in QueryInputs
    /\ svc = NoSvc
    /\ intel = NoIntel
    /\ adp = NoAdp
    /\ convo = NoConv

QFrame == UNCHANGED <<cache, clock, nextId, apiCalls, budget, th, hist, rank, svc, intel, adp, convo>>

QDone(rec, res) == [rec EXCEPT !.pc = "done", !.result = res]

\* lines 259-264: no conversations; else on to line 267
QueryConversations ==
    /\ qry.pc = "call"
    /\ qry' = IF qry.convs = << >>
                 THEN QDone(qry, QResult(NoPastAnswer, << >>, 0, "none"))
                 ELSE [qry EXCEPT !.pc = "embed_query"]
    /\ QFrame

\* line 267, the query is cached
QueryEmbedHit ==
    /\ qry.pc = "embed_query"
    /\ qry.query \in qry.cached
    /\ qry' = [qry EXCEPT !.pc = "candidates", !.i = 1,
                          !.qvec = ProviderVec(qry.query)]
    /\ QFrame

\* line 267, a miss the provider serves
QueryEmbedOk ==
    /\ qry.pc = "embed_query"
    /\ qry.query \notin qry.cached
    /\ qry' = [qry EXCEPT !.pc = "candidates", !.i = 1,
                          !.qvec = ProviderVec(qry.query),
                          !.cached = @ \cup {qry.query},
                          !.provCalls = @ + 1, !.provOk = @ + 1]
    /\ QFrame

\* a failed query embedding that goes on to line 276
QueryEmbedFailGoesOn ==
    /\ qry.pc = "embed_query"
    /\ qry.query \notin qry.cached
    /\ qry' = [qry EXCEPT !.pc = "candidates", !.i = 1, !.provCalls = @ + 1]
    /\ QFrame

\* line 267, a miss the provider fails: None, lines 269-272
QueryEmbedFail ==
    /\ qry.pc = "embed_query"
    /\ qry.query \notin qry.cached
    /\ qry' = [qry EXCEPT !.pc = "keyword", !.path = "keyword",
                          !.provCalls = @ + 1]
    /\ QFrame

\* the loop of line 276 moves to the next conversation, or on to line 303
NextConv(rec) ==
    IF rec.i < Len(rec.convs) THEN [rec EXCEPT !.i = @ + 1]
    ELSE [rec EXCEPT !.pc = "rank", !.i = @ + 1]

CurConv == qry.convs[qry.i]

Candidate(conv) == [id |-> conv.id, embedding |-> ProviderVec(TextToEmbed(conv))]

\* line 290: nothing to embed
CandSkip ==
    /\ qry.pc = "candidates"
    /\ TextToEmbed(CurConv) = << >>
    /\ qry' = NextConv(qry)
    /\ QFrame

\* lines 291-300, the text is cached
CandEmbedHit ==
    /\ qry.pc = "candidates"
    /\ TextToEmbed(CurConv) # << >>
    /\ TextToEmbed(CurConv) \in qry.cached
    /\ qry' = NextConv([qry EXCEPT !.candidates = Append(@, Candidate(CurConv)),
                                   !.convEmbeds = @ + 1])
    /\ QFrame

\* lines 291-300, a miss the provider serves
CandEmbedOk ==
    /\ qry.pc = "candidates"
    /\ TextToEmbed(CurConv) # << >>
    /\ TextToEmbed(CurConv) \notin qry.cached
    /\ qry' = NextConv([qry EXCEPT !.candidates = Append(@, Candidate(CurConv)),
                                   !.cached = @ \cup {TextToEmbed(CurConv)},
                                   !.convEmbeds = @ + 1,
                                   !.provCalls = @ + 1, !.provOk = @ + 1])
    /\ QFrame

\* lines 291-292, a miss the provider fails: the conversation is left out
CandEmbedFail ==
    /\ qry.pc = "candidates"
    /\ TextToEmbed(CurConv) # << >>
    /\ TextToEmbed(CurConv) \notin qry.cached
    /\ qry' = NextConv([qry EXCEPT !.convEmbeds = @ + 1, !.provCalls = @ + 1])
    /\ QFrame

\* an empty ranking that goes on to the keyword search
RankCandidatesFallsBack ==
    /\ qry.pc = "rank"
    /\ LET similar == find_similar_texts(qry.qvec, qry.candidates, qry.top_k,
                                         QueryThreshold)
           rec == [qry EXCEPT !.similar = similar, !.ranked = @ + 1,
                              !.path = "semantic"]
       IN  qry' = IF similar # << >>
                     THEN [rec EXCEPT !.pc = "answer"]
                     ELSE [rec EXCEPT !.pc = "keyword"]
    /\ QFrame

\* lines 303-311 and 377-382
RankCandidates ==
    /\ qry.pc = "rank"
    /\ LET similar == find_similar_texts(qry.qvec, qry.candidates, qry.top_k,
                                         QueryThreshold)
           rec == [qry EXCEPT !.similar = similar, !.ranked = @ + 1,
                              !.path = "semantic"]
       IN  qry' = IF similar # << >>
                     THEN [rec EXCEPT !.pc = "answer"]
                     ELSE QDone(rec, QResult(NoRelevantAnswer, << >>, 0, "none"))
    /\ QFrame

\* lines 344-367: chat returns content
SemAnswerContent ==
    /\ qry.pc = "answer"
    /\ \E c \in Contents :
         qry' = QDone([qry EXCEPT !.chat = "content"],
                      QResult(IF IsRefusal(c) THEN RefusalAnswer ELSE c,
                              SemanticRelated(qry.similar),
                              qry.similar[1].similarity, "none"))
    /\ QFrame

\* lines 344-352, 369-375: chat returns an error result, content is None and
\* answer.lower() raises
SemAnswerError ==
    /\ qry.pc = "answer"
    /\ qry' = QDone([qry EXCEPT !.chat = "error"], QResult(ErrorAnswer, << >>, 0, "none"))
    /\ QFrame

\* lines 344, 369-375: chat raises
SemAnswerRaise ==
    /\ qry.pc = "answer"
    /\ qry' = QDone([qry EXCEPT !.chat = "raise"], QResult(ErrorAnswer, << >>, 0, "none"))
    /\ QFrame

\* lines 545-577 and 631-636
KeywordScore ==
    /\ qry.pc = "keyword"
    /\ LET related == KeywordRelated(qry.query, qry.convs, qry.top_k)
       IN  qry' = IF related # << >>
                     THEN [qry EXCEPT !.pc = "kw_answer", !.related = related]
                     ELSE QDone(qry, QResult(NoRelevantAnswer, << >>, 0, "keyword"))
    /\ QFrame

\* lines 609-627: chat returns content
KwAnswerContent ==
    /\ qry.pc = "kw_answer"
    /\ \E c \in Contents :
         qry' = QDone([qry EXCEPT !.chat = "content"],
                      QResult(c, KeywordRelatedOut(qry.related),
                              KeywordConfidence, "keyword"))
    /\ QFrame

\* lines 609-627: chat returns an error result, the answer is its None content
KwAnswerError ==
    /\ qry.pc = "kw_answer"
    /\ qry' = QDone([qry EXCEPT !.chat = "error"],
                    QResult(None, KeywordRelatedOut(qry.related),
                            KeywordConfidence, "keyword"))
    /\ QFrame

\* lines 609, 628-636: chat raises, the handler prints and control reaches
\* the return of line 631
KwAnswerRaise ==
    /\ qry.pc = "kw_answer"
    /\ qry' = QDone([qry EXCEPT !.chat = "raise"],
                    QResult(NoRelevantAnswer, << >>, 0, "keyword"))
    /\ QFrame

NextQuery ==
    \/ QueryConversations
    \/ QueryEmbedHit
    \/ QueryEmbedOk
    \/ QueryEmbedFail
    \/ CandSkip
    \/ CandEmbedHit
    \/ CandEmbedOk
    \/ CandEmbedFail
    \/ RankCandidates
    \/ SemAnswerContent
    \/ SemAnswerError
    \/ SemAnswerRaise
    \/ KeywordScore
    \/ KwAnswerContent
    \/ KwAnswerError
    \/ KwAnswerRaise

SpecQuery == InitQuery /\ [][NextQuery]_vars

(***************************************************************************)
(* MultiModelService and ChatService: construction, chat, and the static   *)
(* availability report.  The environment of a run is the set of installed  *)
(* adapter libraries, the providers with a key in settings and those with  *)
(* a key in the process environment.  A Python value is <<"None">> or      *)
(* <<"str", s>>; a result dict is a record over the keys it has.           *)
(***************************************************************************)
Providers == {"gemini", "groq", "cohere"}

\* provider names a caller may ask for
RequestNames == {"gemini", "groq", "Groq", "cohere", "openai"}

\* api_key arguments: none, a key of the request, a key of the user profile
RequestKeys == {"", "key-request", "key-profile"}

\* what a provider call may do: answer a text, or raise with a message
ProviderTexts == {"", "OK"}
ProviderErrors == {"timeout", "429 quota"}

PyNone == <<"None">>
Str(s) == <<"str", s>>

\* str.lower() of a provider name
LowerName(n) == IF n = "Groq" THEN "groq" ELSE n

\* a or b on strings
OrKey(a, b) == IF a # "" THEN a ELSE b

\* getattr(settings, 'X_API_KEY', None)
SettingsKey(env, p) == IF p \in env.settings THEN "key-settings" ELSE ""

\* os.getenv('X_API_KEY', ''); the Gemini key is read from settings only
EnvKey(env, p) == IF p \in env.environ /\ p # "gemini" THEN "key-environ" ELSE ""

\* lines 57, 65, 73: the key _initialize_provider ends up with
ConfiguredKey(env, p, api_key) == OrKey(api_key, OrKey(SettingsKey(env, p), EnvKey(env, p)))

\* lines 49-80.  raised: the ValueError of line 80; initialised: client and
\* model_name were set (lines 58-61, 66-69, 74-77)
_initialize_provider(env, provider, api_key) ==
    LET p == LowerName(provider)
    IN  IF p \in Providers /\ p \in env.libs
           THEN [raised |-> FALSE, kind |-> "multi", provider |-> p,
                 initialised |-> ConfiguredKey(env, p, api_key) # "",
                 key |-> ConfiguredKey(env, p, api_key)]
           ELSE [raised |-> TRUE, kind |-> "multi", provider |-> p,
                 initialised |-> FALSE, key |-> ""]

\* ChatService.__init__, lines 20-30
ChatService_init(env, api_key) ==
    [raised |-> FALSE, kind |-> "chat_service", provider |-> "gemini",
     initialised |-> TRUE, key |-> OrKey(api_key, SettingsKey(env, "gemini"))]

\* a success dict that also carries an error text
AdapterResultWithError(router, text) ==
    [content |-> Str(text), error |-> Str("none"), tokens |-> 0,
     processing_time |-> 1, model |-> "model", provider |-> router.provider]

\* the dict a provider adapter returns (lines 165-171, 185-191, 219-225)
AdapterResult(router, text) ==
    [content |-> Str(text), tokens |-> 0, processing_time |-> 1, model |-> "model",
     provider |-> router.provider]

\* ChatService.chat, lines 118-123
ChatServiceResult(text) ==
    [content |-> Str(text), tokens |-> 0, processing_time |-> 1, model |-> "model"]

\* lines 115-120 (chat_service.py 125-130)
ErrorResult(msg) == [content |-> PyNone, error |-> Str(msg), processing_time |-> 1]

\* lines 108-113
UnknownProviderResult == [content |-> PyNone, error |-> Str("Unknown provider"), processing_time |-> 0]

\* what the try block of chat meets: the adapter's return, or an exception:
\* the AttributeError of an object without client/model_name, or the
\* provider's own
Attempt(router, outcome) ==
    IF ~router.initialised
        THEN [raised |-> TRUE, msg |-> "object has no attribute"]
    ELSE IF outcome.kind = "raise"
        THEN [raised |-> TRUE, msg |-> outcome.msg]
    ELSE [raised |-> FALSE, text |-> outcome.text]

\* chat without the handler of line 115
chat_unguarded(router, outcome) ==
    LET a == Attempt(router, outcome)
    IN  IF router.provider \notin Providers
           THEN [propagated |-> FALSE, result |-> UnknownProviderResult]
        ELSE IF a.raised
           THEN [propagated |-> TRUE, result |-> [content |-> PyNone]]
        ELSE [propagated |-> FALSE, result |-> AdapterResult(router, a.text)]

\* MultiModelService.chat, lines 99-120, and ChatService.chat, lines 79-130
chat(router, outcome) ==
    LET a == Attempt(router, outcome)
    IN  IF router.provider \notin Providers
           THEN [propagated |-> FALSE, result |-> UnknownProviderResult]
        ELSE IF a.raised
           THEN [propagated |-> FALSE, result |-> ErrorResult(a.msg)]
        ELSE [propagated |-> FALSE,
              result |-> IF router.kind = "multi" THEN AdapterResult(router, a.text)
                         ELSE ChatServiceResult(a.text)]

\* lines 230-249: the 'available' entry of each provider
get_available_providers(env) ==
    [p \in Providers |->
        p \in env.libs /\ OrKey(SettingsKey(env, p), EnvKey(env, p)) # ""]

\* a recommendation that asks for Gemini first
get_recommended_gemini_first(env) ==
    LET providers == get_available_providers(env)
    IN  IF providers["gemini"] THEN "gemini"
        ELSE IF providers["groq"] THEN "groq"
        ELSE IF providers["cohere"] THEN "cohere"
        ELSE "gemini"

\* lines 254-266
get_recommended_provider(env) ==
    LET providers == get_available_providers(env)
    IN  IF providers["groq"] THEN "groq"
        ELSE IF providers["gemini"] THEN "gemini"
        ELSE IF providers["cohere"] THEN "cohere"
        ELSE "gemini"

Environments ==
    {[libs |-> l, settings |-> s, environ |-> e] :
        l \in SUBSET Providers, s \in SUBSET Providers, e \in SUBSET {"groq", "cohere"}}

NoRouter == [raised |-> FALSE, kind |-> "none", provider |-> "none",
             initialised |-> FALSE, key |-> ""]
NotCalled == [content |-> PyNone]

InitService ==
    /\ cache = {}
    /\ clock = 1
    /\ nextId = 1
    /\ apiCalls = 0
    /\ budget = [p \in Threads |-> 0]
    /\ th = [p \in Threads |-> Idle]
    /\ hist = NoHist
    /\ rank = NoRank
    /\ qry = NoQry
    /\ svc \in {[pc |-> "start", env |-> env, provider |-> "none", api_key |-> "",
                 router |-> NoRouter, attempt |-> "none", propagated |-> FALSE,
                 result |-> NotCalled, calls |-> {},
                 listed |-> [p \in Providers |-> FALSE], recommended |-> "none"] :
                    env \in Environments}
    /\ intel = NoIntel
    /\ adp = NoAdp
    /\ convo = NoConv

SFrame == UNCHANGED <<cache, clock, nextId, apiCalls, budget, th, hist, rank, qry, intel, adp, convo>>

\* MultiModelService(provider, api_key), lines 40-52
Construct ==
    /\ svc.pc = "start"
    /\ \E name \in RequestNames, k \in RequestKeys :
         LET r == _initialize_provider(svc.env, name, k)
         IN  svc' = [svc EXCEPT !.pc = IF r.raised THEN "failed" ELSE "built",
                                !.provider = name, !.api_key = k, !.router = r]
    /\ SFrame

\* ChatService(api_key); the module imports google.generativeai (line 4)
ConstructChatService ==
    /\ svc.pc = "start"
    /\ "gemini" \in svc.env.libs
    /\ \E k \in RequestKeys :
         svc' = [svc EXCEPT !.pc = "built", !.provider = "gemini", !.api_key = k,
                            !.router = ChatService_init(svc.env, k)]
    /\ SFrame

Called(outcome) ==
    LET r == chat(svc.router, outcome)
    IN  [svc EXCEPT !.pc = "done",
                    !.attempt = IF Attempt(svc.router, outcome).raised THEN "raised"
                                ELSE "returned",
                    !.propagated = r.propagated, !.result = r.result]

\* chat on an object whose client and model_name were never set
ChatUninitialised ==
    /\ svc.pc = "built"
    /\ ~svc.router.initialised
    /\ svc' = Called([kind |-> "text", text |-> "OK"])
    /\ SFrame

\* chat, the provider answers
ChatProviderReturns ==
    /\ svc.pc = "built"
    /\ svc.router.initialised
    /\ \E t \in ProviderTexts : svc' = Called([kind |-> "text", text |-> t])
    /\ SFrame

\* chat, the provider call raises
ChatProviderRaises ==
    /\ svc.pc = "built"
    /\ svc.router.initialised
    /\ \E m \in ProviderErrors : svc' = Called([kind |-> "raise", msg |-> m])
    /\ SFrame

\* MultiModelService.get_available_providers(), a static method
GetAvailableProviders ==
    /\ "list" \notin svc.calls
    /\ svc' = [svc EXCEPT !.calls = @ \cup {"list"},
                          !.listed = get_available_providers(svc.env)]
    /\ SFrame

\* MultiModelService.get_recommended_provider(), a static method
GetRecommendedProvider ==
    /\ "recommend" \notin svc.calls
    /\ svc' = [svc EXCEPT !.calls = @ \cup {"recommend"},
                          !.recommended = get_recommended_provider(svc.env)]
    /\ SFrame

NextService ==
    \/ Construct
    \/ ConstructChatService
    \/ ChatUninitialised
    \/ ChatProviderReturns
    \/ ChatProviderRaises
    \/ GetAvailableProviders
    \/ GetRecommendedProvider

SpecService == InitService /\ [][NextService]_vars

(***************************************************************************)
(* IntelligenceService.generate_conversation_summary, extract_topics and   *)
(* analyze_sentiment, one call.  A chat content is the sequence of its     *)
(* lines or words; "{json}" is a text json.loads accepts and ''' stands   *)
(* for the three backquotes of a code fence.                               *)
(***************************************************************************)
IntelOps == {"summary", "topics", "sentiment"}
Depths == {"basic", "detailed", "comprehensive"}
MaxTopicsArgs == {1, 2}

ChatContents ==
    {<<"{json}">>, <<"'''json", "{json}", "'''">>, <<"'''", "{json}", "'''">>,
     <<"'''json", "{broken", "'''">>, <<"Positive", "mixed">>, <<"negative">>,
     <<"mixed">>, <<"fine">>, <<"- Pricing", " ", "2. Lunch", "Menu">>}

\* the part of a text behind the first occurrence of a mark
RECURSIVE After(_, _)
After(t, mark) ==
    IF t = << >> THEN << >>
    ELSE IF Head(t) = mark THEN Tail(t) ELSE After(Tail(t), mark)

\* the part of a text before the first occurrence of a mark
RECURSIVE Before(_, _)
Before(t, mark) ==
    IF t = << >> \/ Head(t) = mark THEN << >>
    ELSE <<Head(t)>> \o Before(Tail(t), mark)

\* lines 111-114 and 219-222: what lies between the opening fence and the
\* next one, stripped
StripFence(content) ==
    IF Contains(content, "'''json") THEN Strip(Before(After(content, "'''json"), "'''"))
    ELSE IF Contains(content, "'''") THEN Strip(Before(After(content, "'''"), "'''"))
    ELSE content

\* json.loads succeeds
IsJson(text) == text = <<"{json}">>

\* what json.loads returns
Parsed(text) == [json |-> text[1]]

SummaryValue(s) == [summary |-> s, key_points |-> << >>, topics |-> << >>]
SentimentValue(s, c) == [sentiment |-> s, confidence |-> c]

\* nothing is returned in place of the degraded value
DegradedNothing(op) ==
    CASE op = "summary" -> SummaryValue(<< >>)
      [] op = "topics" -> <<"Error">>
      [] op = "sentiment" -> SentimentValue("neutral", 60)

\* lines 103-104 and 126-128, 164-165 and 175-177, 212-213 and 238-240
Degraded(op) ==
    CASE op = "summary" -> SummaryValue(ErrorSummary)
      [] op = "topics" -> << >>
      [] op = "sentiment" -> SentimentValue("neutral", 0)

\* lines 54-55, 141-142, 189-190: no messages
EmptyValue(op) ==
    CASE op = "summary" -> SummaryValue(<< >>)
      [] op = "topics" -> << >>
      [] op = "sentiment" -> SentimentValue("neutral", 0)

\* line 168: the list markers are stripped off a line
CleanLine(line) ==
    CASE line = "- Pricing" -> "Pricing"
      [] line = "2. Lunch" -> "Lunch"
      [] OTHER -> line

\* lines 167-171: the lines that are not blank
RECURSIVE TopicLines(_)
TopicLines(content) ==
    IF content = << >> THEN << >>
    ELSE IF Head(content) = " " THEN TopicLines(Tail(content))
    ELSE <<CleanLine(Head(content))>> \o TopicLines(Tail(content))

\* lines 228-236: the sentiment words in a fixed order, confidence in
\* hundredths
SentimentScan(text) ==
    IF ContainsLower(text, "positive") THEN SentimentValue("positive", 70)
    ELSE IF ContainsLower(text, "negative") THEN SentimentValue("negative", 70)
    ELSE IF ContainsLower(text, "mixed") THEN SentimentValue("mixed", 60)
    ELSE SentimentValue("neutral", 60)

\* lines 106-124, 167-173, 215-236: the value for a chat content
ContentValue(op, content, max_topics) ==
    CASE op = "summary" ->
           IF IsJson(StripFence(content)) THEN Parsed(StripFence(content))
           ELSE SummaryValue(StripFence(content))
      [] op = "topics" -> Slice(TopicLines(content), max_topics)
      [] op = "sentiment" ->
           IF IsJson(StripFence(content)) THEN Parsed(StripFence(content))
           ELSE SentimentScan(StripFence(content))

InitIntel ==
    /\ cache = {}
    /\ clock = 1
    /\ nextId = 1
    /\ apiCalls = 0
    /\ budget = [p \in Threads |-> 0]
    /\ th = [p \in Threads |-> Idle]
    /\ hist = NoHist
    /\ rank = NoRank
    /\ qry = NoQry
    /\ svc = NoSvc
    /\ intel \in {[pc |-> "call", op |-> op, has_messages |-> h, depth |-> d,
                   max_topics |-> k, chat |-> "none", content |-> << >>,
                   value |-> EmptyValue(op), chatCalls |-> 0] :
                     op \in IntelOps, h \in BOOLEAN, d \in Depths, k \in MaxTopicsArgs}
    /\ adp = NoAdp
    /\ convo = NoConv

IFrame ==
    UNCHANGED <<cache, clock, nextId, apiCalls, budget, th, hist, rank, qry, svc, adp, convo>>

\* entry: `if not messages` returns at once, else the prompt is built
IntelCall ==
    /\ intel.pc = "call"
    /\ intel' = IF intel.has_messages THEN [intel EXCEPT !.pc = "chat"]
                ELSE [intel EXCEPT !.pc = "done", !.value = EmptyValue(intel.op)]
    /\ IFrame

\* chat returns a content
IntelChatContent ==
    /\ intel.pc = "chat"
    /\ \E c \in ChatContents :
         intel' = [intel EXCEPT !.pc = "done", !.chat = "content", !.content = c,
                                !.chatCalls = @ + 1,
                                !.value = ContentValue(intel.op, c, intel.max_topics)]
    /\ IFrame

\* chat returns a result with error: `if response.get('error')`
IntelChatError ==
    /\ intel.pc = "chat"
    /\ intel' = [intel EXCEPT !.pc = "done", !.chat = "error", !.chatCalls = @ + 1,
                              !.value = Degraded(intel.op)]
    /\ IFrame

\* chat raises: `except Exception`
IntelChatRaise ==
    /\ intel.pc = "chat"
    /\ intel' = [intel EXCEPT !.pc = "done", !.chat = "raise", !.chatCalls = @ + 1,
                              !.value = Degraded(intel.op)]
    /\ IFrame

NextIntel ==
    \/ IntelCall
    \/ IntelChatContent
    \/ IntelChatError
    \/ IntelChatRaise

SpecIntel == InitIntel /\ [][NextIntel]_vars

(***************************************************************************)
(* Properties.                                                             *)
(***************************************************************************)
Caller == th["t1"]

\* the state after a get_embedding call that followed, with nothing in
\* between, a get_embedding call of the same text under the same model, both
\* with the cache enabled, the first of which got its vector from the provider
SecondOfTwo ==
    /\ Caller.pc = "done"
    /\ Caller.op = "get_embedding"
    /\ Caller.use_cache
    /\ hist.prev.valid
    /\ hist.prev.use_cache
    /\ hist.prev.ok
    /\ hist.prev.text = Caller.texts[1]
    /\ hist.prev.model = Caller.model

\* C1: two get_embedding calls in a row with the same non-empty text, the same
\* model and the cache enabled, the provider succeeding on the first: one
\* provider call in total, the second call returns the vector of the first,
\* and access_count after the second call is one more than after the first.
C1_CacheIdempotence ==
    SecondOfTwo =>
        /\ hist.prev.calls + Len(Caller.called) = 1
        /\ Caller.ret = hist.prev.ret
        /\ Caller.ret # None
        /\ CountOf(Caller.texts[1]) = hist.prev.count + 1

C1_Witness == SecondOfTwo /\ Caller.found = {1} /\ CountOf(Caller.texts[1]) = 2

\* C2: at most one cache entry per (text content, model) pair, in every
\* reachable state of the table, under every interleaving of get_embedding and
\* get_embeddings_batch.
C2_OneEntryPerTextAndModel ==
    \A r1 \in cache, r2 \in cache :
        (r1.text_preview = r2.text_preview /\ r1.model = r2.model) => r1 = r2

\* both threads have embedded and stored the same text under the same model
C2_Witness ==
    /\ \A p \in Threads : th[p].pc = "done" /\ th[p].okAt # {} /\ th[p].wrote # {}
    /\ th["t1"].op = "get_embeddings_batch"
    /\ th["t1"].model = th["t2"].model
    /\ \E i \in th["t1"].okAt : th["t1"].texts[i] = th["t2"].texts[1]
    /\ Cardinality(cache) = 1

\* number of finished cache hits of thread p on text t
HitsOn(p, t) == Cardinality({i \in th[p].found \cap th[p].wrote : th[p].texts[i] = t})

\* no thread is between the read and the save of a cache hit
NoHitInFlight ==
    \A p \in Threads : th[p].pc \notin {"ge_touch", "ge_save", "b_touch", "b_save"}

\* no thread has stored an embedding
NoPut == \A p \in Threads : th[p].wrote \subseteq th[p].found

\* C3: every cache hit adds exactly one to access_count: once n hits on the
\* seeded entry have finished (overlapping or not), its access_count is n more
\* than before them.
C3_HitsCounted ==
    (SeedRow.id \in {r.id : r \in cache} /\ NoHitInFlight /\ NoPut)
    => CountOf(<<"a">>) = SeedRow.access_count + HitsOn("t1", <<"a">>) + HitsOn("t2", <<"a">>)

\* C4: once an entry of (t, m) has been created, every later get_embedding of
\* t under m with the cache enabled is a cache hit without a provider call.
C4_EntryNeverReplaced ==
    (/\ Caller.pc = "done"
     /\ Caller.op = "get_embedding"
     /\ Caller.use_cache
     /\ <<Caller.texts[1], Caller.model>> \in hist.made)
    => Caller.found = {1} /\ Caller.called = << >> /\ Caller.ret # None

\* C5: last_accessed of a cache entry never decreases, whatever operations
\* touch the entry and however they overlap.
C5_LastAccessedMonotone ==
    [][\A r \in cache : \A q \in cache' :
          r.id = q.id => q.last_accessed >= r.last_accessed]_vars

\* positions of a call for which the provider was called
CalledAt(p) == {th[p].called[k] : k \in 1..Len(th[p].called)}

\* position i of the input of the call of p is finished: get_embedding has
\* returned, the first loop of get_embeddings_batch is past i
Settled(p, i) ==
    IF th[p].op = "get_embedding" THEN th[p].pc = "done"
    ELSE th[p].pc = "done" \/ i < th[p].i

\* what the call has for position i: the return value of get_embedding,
\* element i of the list of get_embeddings_batch
Produced(p, i) ==
    IF th[p].op = "get_embedding" THEN th[p].ret
    ELSE IF th[p].pc = "done" THEN th[p].ret[i] ELSE th[p].embeddings[i]

\* C6: cache-first: when get_embedding, or a position of get_embeddings_batch,
\* finds an entry of the text and the model with the cache enabled, it returns
\* the vector it read and calls the provider for nothing at that position.
C6_CacheFirst ==
    \A p \in Threads : \A h \in th[p].read :
        /\ th[p].use_cache
        /\ h[1] \notin CalledAt(p)
        /\ \A k \in 1..Len(th[p].indices_to_embed) : th[p].indices_to_embed[k] # h[1]
        /\ Settled(p, h[1]) => Produced(p, h[1]) = h[2]

\* a finished batch with a cached text and a text the provider embedded, and
\* a finished get_embedding that was a cache hit
C6_Witness ==
    /\ th["t1"].pc = "done"
    /\ th["t1"].op = "get_embeddings_batch"
    /\ th["t1"].read # {}
    /\ th["t1"].okAt # {}
    /\ th["t2"].pc = "done"
    /\ th["t2"].read # {}

\* a text with no character other than white space
EmptyOrWhitespace(t) == \A i \in 1..Len(t) : t[i] = " "

\* C7: an empty or whitespace-only text gives None, at its position of a
\* batch too, with no cache read, no cache write and no provider call.
C7_EmptyTextNoEffect ==
    \A p \in Threads : \A i \in 1..Len(th[p].texts) :
        EmptyOrWhitespace(th[p].texts[i]) =>
            /\ i \notin th[p].looked
            /\ i \notin th[p].wrote
            /\ i \notin CalledAt(p)
            /\ Settled(p, i) => Produced(p, i) = None

\* get_embedding of a whitespace-only text has returned and a batch with an
\* empty text and a text the provider embedded has returned
C7_Witness ==
    /\ th["t2"].pc = "done"
    /\ th["t2"].texts = <<<<" ">>>>
    /\ th["t1"].pc = "done"
    /\ th["t1"].op = "get_embeddings_batch"
    /\ Len(th["t1"].texts) = 2
    /\ th["t1"].texts[1] = << >>
    /\ th["t1"].okAt = {2}

\* the call of the single caller looked the text up and found no entry
Missed ==
    /\ Caller.pc = "done"
    /\ Caller.op = "get_embedding"
    /\ Caller.use_cache
    /\ Caller.looked = {1}
    /\ Caller.read = {}

\* C8: on a cache miss get_embedding calls the provider exactly once; when the
\* call fails (quota or any other error) it returns None and leaves the table
\* as it was; when it succeeds the vector is stored and returned.
C8_MissCallsProviderOnce ==
    Missed =>
        /\ Len(Caller.called) = 1
        /\ Caller.okAt = {} => (Caller.ret = None /\ cache = hist.cache0)
        /\ Caller.okAt # {} =>
             /\ Caller.ret # None
             /\ \E k \in Variants :
                  Caller.ret = Vec(Caller.texts[1], Caller.model, k)
             /\ \E r \in cache :
                  /\ r.text_preview = Caller.texts[1]
                  /\ r.model = Caller.model
                  /\ r.embedding = Caller.ret

\* a miss whose provider call failed with a quota error, on a table that is
\* not empty
C8_Witness == Missed /\ Caller.log = "quota" /\ cache # {}

\* C9: get_embeddings_batch is positional: the result has the length of the
\* input, position i holds an embedding of texts[i] when the cache or the
\* provider gave one and None otherwise (empty texts, texts not embedded); a
\* provider failure leaves the other positions as they are.
C9_BatchPositional ==
    \A p \in Threads :
        (th[p].pc = "done" /\ th[p].op = "get_embeddings_batch") =>
            /\ Len(th[p].ret) = Len(th[p].texts)
            /\ \A i \in 1..Len(th[p].texts) :
                 IF i \in th[p].found \cup th[p].okAt
                   THEN /\ ~EmptyOrWhitespace(th[p].texts[i])
                        /\ \E k \in Variants :
                             th[p].ret[i] = Vec(th[p].texts[i], th[p].model, k)
                   ELSE th[p].ret[i] = None

\* a batch of two texts: the provider embedded the first and failed on the
\* second
C9_Witness ==
    /\ th["t1"].pc = "done"
    /\ th["t1"].op = "get_embeddings_batch"
    /\ th["t1"].log = "batch error"
    /\ Len(th["t1"].called) = 2
    /\ th["t1"].okAt = {1}
    /\ th["t1"].ret[1] # None
    /\ th["t1"].ret[2] = None

Results == rank.results

\* the candidates that have a vector and reach the threshold
QualifyingIds ==
    {i \in 1..Len(rank.candidates) :
        /\ rank.candidates[i].embedding # None
        /\ Cosine100(rank.query, rank.candidates[i].embedding) >= rank.threshold}

\* every result is a candidate of the input with its similarity to the
\* query, no candidate twice, none below the threshold, at most top_k
RankedFromInput ==
    /\ Len(Results) <= rank.top_k
    /\ \A k \in 1..Len(Results) :
         /\ Results[k].id \in 1..Len(rank.candidates)
         /\ Results[k].embedding = rank.candidates[Results[k].id].embedding
         /\ Results[k].similarity = Cosine100(rank.query, Results[k].embedding)
         /\ Results[k].similarity >= rank.threshold
    /\ \A k, l \in 1..Len(Results) : k # l => Results[k].id # Results[l].id

\* the results are the top_k best qualifying candidates
TopOfQualifying ==
    rank.query # None =>
        /\ Len(Results) =
             IF Cardinality(QualifyingIds) < rank.top_k THEN Cardinality(QualifyingIds)
             ELSE rank.top_k
        /\ \A i \in QualifyingIds :
             (\A k \in 1..Len(Results) : Results[k].id # i) =>
                 \A k \in 1..Len(Results) :
                     Results[k].similarity >=
                         Cosine100(rank.query, rank.candidates[i].embedding)

\* C10 as stated: the output of find_similar_texts is sorted strictly
\* descending by similarity, has at most top_k elements, all of similarity >=
\* threshold, and they are the top_k best qualifying candidates.
C10_RankingStrict ==
    rank.pc = "done" =>
        /\ \A k \in 1..(Len(Results) - 1) :
             Results[k].similarity > Results[k + 1].similarity
        /\ RankedFromInput
        /\ TopOfQualifying

\* C10 (amended): the output of find_similar_texts is sorted descending by
\* similarity, equal similarities allowed side by side, has at most top_k
\* elements, all of similarity >= threshold, and they are the top_k best
\* qualifying candidates.
C10_Ranking ==
    rank.pc = "done" =>
        /\ \A k \in 1..(Len(Results) - 1) :
             Results[k].similarity >= Results[k + 1].similarity
        /\ RankedFromInput
        /\ TopOfQualifying

\* similarities 0.8, -0.8, 0.96, 0.6 against the query, threshold 0.5,
\* top_k 2: the 0.96 candidate, then the 0.8 candidate
C10_Witness ==
    /\ rank.pc = "done"
    /\ rank.query = <<4, 3>>
    /\ Len(rank.candidates) = 4
    /\ rank.candidates[1].embedding = <<1, 0>>
    /\ rank.candidates[2].embedding = <<-1, 0>>
    /\ rank.candidates[3].embedding = <<3, 4>>
    /\ rank.candidates[4].embedding = <<0, 1>>
    /\ rank.threshold = 50
    /\ rank.top_k = 2
    /\ Len(Results) = 2
    /\ Results[1].id = 3 /\ Results[1].similarity = 96
    /\ Results[2].id = 1 /\ Results[2].similarity = 80

(***************************************************************************)
(* query_conversations.                                                    *)
(***************************************************************************)
\* the call is past line 267 and get_embedding(query) returned None
QueryEmbeddingNone ==
    /\ qry.pc \in {"keyword", "kw_answer", "done"}
    /\ qry.convs # << >>
    /\ qry.qvec = None

QueryDone == qry.pc = "done"

SomeKeywordMatch == \E k \in 1..Len(qry.convs) : Matches(qry.query, qry.convs[k]) > 0

SomeKeywordMatchKept ==
    \E k \in 1..Len(qry.convs) :
        /\ Matches(qry.query, qry.convs[k]) > 0
        /\ Cardinality({j \in 1..Len(qry.convs) :
                          \/ Matches(qry.query, qry.convs[j]) > Matches(qry.query, qry.convs[k])
                          \/ /\ Matches(qry.query, qry.convs[j]) = Matches(qry.query, qry.convs[k])
                             /\ j < k}) < qry.top_k

C12_DegradesToKeyword ==
    (QueryDone /\ qry.top_k >= 1 /\ qry.provCalls >= 1 /\ qry.provOk = 0) =>
        qry.result.search_method = "keyword"

SemanticSuccess == QueryDone /\ qry.path = "semantic" /\ qry.chat = "content"

\* C13: on the semantic path, when the answer was generated, there are at
\* most top_k related conversations, each with similarity >= 0.5, in
\* descending order of similarity, and the confidence is the similarity of
\* the first, which is the highest among them.
C13_SemanticResult ==
    SemanticSuccess =>
        LET rel == qry.result.related_conversations
        IN  /\ Len(rel) >= 1
            /\ Len(rel) <= qry.top_k
            /\ \A k \in 1..Len(rel) : rel[k].similarity >= QueryThreshold
            /\ \A k \in 1..(Len(rel) - 1) : rel[k].similarity >= rel[k + 1].similarity
            /\ qry.result.confidence = rel[1].similarity
            /\ \A k \in 1..Len(rel) : rel[k].similarity <= qry.result.confidence

\* a semantic answer over two conversations of different similarity, the
\* later one ranked first
C13_Witness ==
    /\ SemanticSuccess
    /\ Len(qry.result.related_conversations) = 2
    /\ qry.result.related_conversations[1].id = 2
    /\ qry.result.related_conversations[1].similarity
         > qry.result.related_conversations[2].similarity

ChatDone == svc.pc = "done"

SuccessShape(r) == r.content # PyNone /\ "error" \notin DOMAIN r

FailureShape(r) ==
    /\ r.content = PyNone
    /\ "error" \in DOMAIN r
    /\ r.error # PyNone
    /\ r.error # Str("")

C16_NeverPropagates ==
    (ChatDone /\ svc.router.kind = "multi") =>
        /\ ~svc.propagated
        /\ "processing_time" \in DOMAIN svc.result
        /\ svc.attempt = "raised" =>
             /\ svc.result.content = PyNone
             /\ "error" \in DOMAIN svc.result
             /\ svc.result.error # PyNone

\* chat on a Groq object built without any key
C16_Witness ==
    /\ ChatDone
    /\ svc.router.kind = "multi"
    /\ svc.router.provider = "groq"
    /\ ~svc.router.initialised
    /\ svc.result.content = PyNone
    /\ "processing_time" \in DOMAIN svc.result

Constructed == svc.pc \in {"built", "done"} /\ svc.router.kind = "multi"

\* C17: a MultiModelService object exists only for a known provider whose
\* library is installed and for which a key is configured from some source,
\* and it is for the provider that was asked for.
C17_ConstructionFails ==
    Constructed =>
        /\ svc.router.provider \in Providers
        /\ svc.router.provider \in svc.env.libs
        /\ svc.router.provider = LowerName(svc.provider)
        /\ ConfiguredKey(svc.env, svc.router.provider, svc.api_key) # ""

Available(p) == get_available_providers(svc.env)[p]

\* C18: get_recommended_provider returns the first available provider in
\* the order groq, gemini, cohere, so the recommended provider is available
\* whenever one is.
C18_ProviderPriority ==
    "recommend" \in svc.calls =>
        /\ Available("groq") => svc.recommended = "groq"
        /\ (~Available("groq") /\ Available("gemini")) => svc.recommended = "gemini"
        /\ (~Available("groq") /\ ~Available("gemini") /\ Available("cohere"))
             => svc.recommended = "cohere"
        /\ (\E p \in Providers : Available(p)) => Available(svc.recommended)

\* only Gemini and Cohere are available
C18_Witness ==
    /\ "recommend" \in svc.calls
    /\ ~Available("groq")
    /\ Available("gemini")
    /\ Available("cohere")
    /\ svc.recommended = "gemini"

\* C19: a provider is reported available exactly when its library is
\* installed and a key is configured for it, the key being the api_key
\* argument (of the request or of the user profile) or else the system
\* default: for the provider of a constructed object, reported available
\* is the same as constructed with a key.
C19_AvailableIffKeyed ==
    (Constructed /\ "list" \in svc.calls) =>
        (svc.listed[svc.router.provider]
            <=> /\ svc.router.provider \in svc.env.libs
                /\ ConfiguredKey(svc.env, svc.router.provider, svc.api_key) # "")

(***************************************************************************)
(* The intelligence operations.                                            *)
(***************************************************************************)
IntelDone == intel.pc = "done"

ChatFailed == intel.chat \in {"error", "raise"}

ParseFailed == intel.chat = "content" /\ ~IsJson(StripFence(intel.content))

\* the values of a chat failure, for each operation
FailureValues ==
    /\ (intel.op = "summary" /\ ChatFailed) =>
         /\ intel.value.summary = <<"Error", "generating", "summary">>
         /\ intel.value.key_points = << >>
         /\ intel.value.topics = << >>
    /\ (intel.op = "topics" /\ ChatFailed) => intel.value = << >>
    /\ (intel.op = "sentiment" /\ ChatFailed) =>
         /\ intel.value.sentiment = "neutral"
         /\ intel.value.confidence = 0

BatchDone == Caller.pc = "done" /\ Caller.op = "get_embeddings_batch"

\* C21: a get_embeddings_batch call asks the provider once per distinct
\* uncached text: no two provider calls of one batch are for the same text.
C21_OncePerDistinctText ==
    BatchDone =>
        \A k, l \in 1..Len(Caller.called) :
            k # l => Caller.texts[Caller.called[k]] # Caller.texts[Caller.called[l]]

\* both threads have finished a cached get_embedding of the text under the
\* same model and both got a vector
BothEmbedded(t) ==
    /\ \A p \in Threads :
         /\ th[p].pc = "done"
         /\ th[p].op = "get_embedding"
         /\ th[p].texts = <<t>>
         /\ th[p].use_cache
         /\ th[p].ret # None
    /\ th["t1"].model = th["t2"].model

\* C22: after two get_embedding calls of the same uncached text and model,
\* however they overlap, the cache is as after the two calls in a row: one
\* entry for the key, with a vector the provider gave, the caller's model
\* and access_count 2 (the store of the first call and the hit of the
\* second).  "b" is in no initial cache.
C22_ConcurrentConverges ==
    BothEmbedded(<<"b">>) =>
        \E r \in cache :
            /\ Matching(_get_text_hash(<<"b">>), th["t1"].model) = {r}
            /\ r.embedding \in {th["t1"].ret, th["t2"].ret}
            /\ r.access_count = 2

\* a step of a call that runs with use_cache disabled
UncachedStep(p) == ~th[p].use_cache /\ th'[p] # th[p]

NonBlankAt(rec) == {k \in 1..Len(rec.texts) : ~IsBlank(rec.texts[k])}

CalledPositions(rec) == {rec.called[k] : k \in 1..Len(rec.called)}

\* C29: with use_cache disabled no step of get_embedding or
\* get_embeddings_batch reads or writes the cache, whether the provider
\* succeeds or fails, and a finished call has asked the provider for its
\* non-empty texts: once in get_embedding, for each of them in a batch the
\* provider did not fail, at least for the first of them otherwise.
C29_NoCacheUse ==
    [][\A p \in Threads :
         UncachedStep(p) =>
           /\ cache' = cache
           /\ th'[p].looked = {} /\ th'[p].found = {} /\ th'[p].wrote = {}
           /\ th'[p].pc = "done" =>
                /\ (NonBlankAt(th'[p]) # {}) <=> (th'[p].called # << >>)
                /\ th'[p].op = "get_embedding" => Len(th'[p].called) = 1
                /\ th'[p].log # "batch error" => CalledPositions(th'[p]) = NonBlankAt(th'[p])]_vars

\* a batch over the cached "a" and "b" with use_cache disabled: two provider
\* calls, the table as it was
C29_Witness ==
    /\ BatchDone
    /\ ~Caller.use_cache
    /\ Caller.model = "m1"
    /\ Caller.texts = <<<<"a">>, <<"b">>>>
    /\ Len(Caller.called) = 2
    /\ cache = {SeedRow}

(***************************************************************************)
(* find_similar_texts, continued.                                          *)
(***************************************************************************)
\* C25: in find_similar_texts, results of equal similarity keep the order
\* their candidates had in the input, a candidate without a vector is never
\* in the output, and a missing query vector or an empty candidate list
\* gives the empty list.
C25_StableAndTotal ==
    rank.pc = "done" =>
        /\ \A k, l \in 1..Len(Results) :
             (k < l /\ Results[k].similarity = Results[l].similarity)
                 => Results[k].id < Results[l].id
        /\ \A k \in 1..Len(Results) :
             /\ Results[k].id \in 1..Len(rank.candidates)
             /\ rank.candidates[Results[k].id].embedding # None
        /\ (rank.query = None \/ rank.candidates = << >>) => Results = << >>

\* similarities 0.8, none, 0.8, 0.96: the 0.96 candidate, then the two 0.8
\* candidates in input order, the candidate without a vector left out
C25_Witness ==
    /\ rank.pc = "done"
    /\ rank.query = <<4, 3>>
    /\ Len(rank.candidates) = 4
    /\ rank.candidates[1].embedding = <<1, 0>>
    /\ rank.candidates[2].embedding = None
    /\ rank.candidates[3].embedding = <<1, 0>>
    /\ rank.candidates[4].embedding = <<3, 4>>
    /\ rank.top_k = 3
    /\ Len(Results) = 3
    /\ Results[1].id = 4 /\ Results[2].id = 1 /\ Results[3].id = 3

(***************************************************************************)
(* query_conversations, continued.                                         *)
(***************************************************************************)
\* the ranking of line 303 was reached: the call is on the semantic path
Ranked == QueryDone /\ qry.ranked = 1

NonePasses == Qualifying(qry.qvec, qry.candidates, QueryThreshold) = << >>

\* C26: on the semantic path of query_conversations, when no candidate
\* reaches the 0.5 threshold, also when every candidate embedding failed,
\* the result is the 'no relevant conversations' result with confidence 0 and
\* no related conversations, and the chat provider is not called.
C26_NoneRelevant ==
    (Ranked /\ NonePasses) =>
        /\ qry.result = QResult(NoRelevantAnswer, << >>, 0, "none")
        /\ qry.chat = "none"

\* two conversations, the embedding of both failed
C26_Witness ==
    /\ Ranked /\ NonePasses
    /\ Len(qry.convs) = 2
    /\ qry.convEmbeds = 2
    /\ qry.candidates = << >>
    /\ qry.top_k = 2
    /\ qry.result.answer = NoRelevantAnswer

\* C27: every result of query_conversations has an answer that is a
\* populated string, with related_conversations and confidence, on every
\* path and for every outcome of the chat call.
C27_AnswerPopulated ==
    QueryDone => qry.result.answer # None

\* C28: in every result of query_conversations each related conversation is
\* one of the input conversations, none is listed twice, there are at most
\* top_k of them, and every similarity lies in [-1, 1].
C28_RelatedWellFormed ==
    QueryDone =>
        LET rel == qry.result.related_conversations
        IN  /\ Len(rel) <= qry.top_k
            /\ \A k \in 1..Len(rel) :
                 /\ rel[k].id \in 1..Len(qry.convs)
                 /\ rel[k].similarity >= -100
                 /\ rel[k].similarity <= 100
            /\ \A k, l \in 1..Len(rel) : k # l => rel[k].id # rel[l].id

(***************************************************************************)
(* ConversationViewSet: the life of one conversation under the requests    *)
(* end, chat, generate-summary and update/partial_update.  Requests run    *)
(* concurrently; a step is one handler up to its next database write.  A   *)
(* handler works on the instance get_object() read, and a save() without   *)
(* update_fields writes every field of that instance back.                 *)
(***************************************************************************)
MaxRequests == 4

\* the fields a ConversationUpdateSerializer accepts for status, "absent"
\* when the request leaves the field out, "archived" not one of the choices
StatusData == {"absent", "active", "ended", "archived"}
TitleData == {"absent", "renamed"}

STATUS_CHOICES == {"active", "ended"}

\* Conversation.objects.create, with or without initial_message
NewConversation(n) ==
    [status |-> "active", ended_at |-> 0, summary |-> "none", title |-> "first",
     message_count |-> n]

NoRequest == [pc |-> "idle"]

NoResponse == [op |-> "none", code |-> 0]

InitConv ==
    /\ cache = {}
    /\ clock = 1
    /\ nextId = 1
    /\ apiCalls = 0
    /\ budget = [p \in Threads |-> 0]
    /\ th = [p \in Threads |-> Idle]
    /\ hist = NoHist
    /\ rank = NoRank
    /\ qry = NoQry
    /\ svc = NoSvc
    /\ intel = NoIntel
    /\ adp = NoAdp
    /\ \E first \in {<< >>, <<"user">>} :
         convo = [pc |-> "on", row |-> NewConversation(Len(first)), messages |-> first,
                  requests |-> 0, started |-> "none", resp |-> NoResponse,
                  chatReq |-> NoRequest, endReq |-> NoRequest]

CFrame == UNCHANGED <<cache, clock, nextId, apiCalls, budget, th, hist, rank, qry, svc, intel, adp>>

\* a request arrives: get_object() reads the row
Arrive(op) ==
    /\ convo.pc = "on"
    /\ convo.requests < MaxRequests

Began(op) == [convo EXCEPT !.requests = @ + 1, !.started = op]

Respond(rec, op, code) == [rec EXCEPT !.resp = [op |-> op, code |-> code]]

\* Conversation.end_conversation, lines 44-51
end_conversation(inst, now) == [inst EXCEPT !.status = "ended", !.ended_at = now]

\* end, lines 120-130: an ended conversation is refused, then the body is
\* validated
EndGetObject ==
    /\ Arrive("end")
    /\ convo.endReq.pc = "idle"
    /\ \E valid \in BOOLEAN, generate_summary \in BOOLEAN :
         convo' = IF convo.row.status = "ended" \/ ~valid
                     THEN Respond(Began("end"), "end", 400)
                     ELSE [Began("end") EXCEPT
                              !.endReq = [pc |-> "end", inst |-> convo.row,
                                          generate_summary |-> generate_summary]]
    /\ CFrame

\* end, line 133: end_conversation() saves the instance
EndConversation ==
    /\ convo.pc = "on"
    /\ convo.endReq.pc = "end"
    /\ LET inst == end_conversation(convo.endReq.inst, convo.requests)
           rec == [convo EXCEPT !.row = inst, !.endReq.inst = inst]
       IN  convo' = IF convo.endReq.generate_summary
                       THEN [rec EXCEPT !.endReq.pc = "summary"]
                       ELSE Respond([rec EXCEPT !.endReq = NoRequest], "end", 200)
    /\ CFrame

\* end, lines 136-231: no messages, save() of the instance; else the summary
\* fields are saved with update_fields
EndSummary ==
    /\ convo.pc = "on"
    /\ convo.endReq.pc = "summary"
    /\ \E s \in {"ai", "fallback"} :
         LET rec == Respond([convo EXCEPT !.endReq = NoRequest], "end", 200)
         IN  convo' = IF convo.messages = << >>
                         THEN [rec EXCEPT !.row = [convo.endReq.inst EXCEPT !.summary = "empty"]]
                         ELSE [rec EXCEPT !.row.summary = s]
    /\ CFrame

\* generate_summary, lines 237-336: only the summary fields are written
GenerateSummary ==
    /\ Arrive("generate-summary")
    /\ \E s \in {"ai", "fallback"} :
         convo' = IF convo.messages = << >>
                     THEN Respond(Began("generate-summary"), "generate-summary", 400)
                     ELSE Respond([Began("generate-summary") EXCEPT !.row.summary = s],
                                  "generate-summary", IF s = "ai" THEN 200 ELSE 206)
    /\ CFrame

\* update and partial_update of ModelViewSet with ConversationUpdateSerializer
\* (serializers.py 161-166): the validated fields are set on the instance
\* and the instance is saved
Update ==
    /\ Arrive("update")
    /\ \E st \in StatusData, ti \in TitleData :
         convo' = IF st \notin STATUS_CHOICES \cup {"absent"}
                     THEN Respond(Began("update"), "update", 400)
                     ELSE Respond([Began("update") EXCEPT
                                      !.row.status = IF st = "absent" THEN @ ELSE st,
                                      !.row.title = IF ti = "absent" THEN @ ELSE ti],
                                  "update", 200)
    /\ CFrame

\* chat, lines 354-367: an ended conversation is refused, then the body is
\* validated
ChatGetObject ==
    /\ Arrive("chat")
    /\ convo.chatReq.pc = "idle"
    /\ \E valid \in BOOLEAN :
         convo' = IF convo.row.status = "ended" \/ ~valid
                     THEN Respond(Began("chat"), "chat", 400)
                     ELSE [Began("chat") EXCEPT
                              !.chatReq = [pc |-> "create", inst |-> convo.row]]
    /\ CFrame

\* chat, lines 372-376: the user message is stored
ChatCreateUser ==
    /\ convo.pc = "on"
    /\ convo.chatReq.pc = "create"
    /\ convo' = [convo EXCEPT !.messages = Append(@, "user"),
                              !.chatReq.pc = "provider"]
    /\ CFrame

\* chat, lines 445-472: the provider answers, the assistant message is
\* stored
ChatProviderContent ==
    /\ convo.pc = "on"
    /\ convo.chatReq.pc = "provider"
    /\ convo' = [convo EXCEPT !.messages = Append(@, "assistant"),
                              !.chatReq.pc = "save"]
    /\ CFrame

\* chat, lines 461-465 and 507-511: an error result or an exception
ChatProviderError ==
    /\ convo.pc = "on"
    /\ convo.chatReq.pc = "provider"
    /\ convo' = Respond([convo EXCEPT !.chatReq = NoRequest], "chat", 500)
    /\ CFrame

\* chat, lines 475-476: message_count is counted and the instance saved
ChatSave ==
    /\ convo.pc = "on"
    /\ convo.chatReq.pc = "save"
    /\ convo' = Respond([convo EXCEPT
                            !.row = [convo.chatReq.inst EXCEPT
                                        !.message_count = Len(convo.messages)],
                            !.chatReq = NoRequest],
                        "chat", 200)
    /\ CFrame

NextConvo ==
    \/ EndGetObject
    \/ EndConversation
    \/ EndSummary
    \/ GenerateSummary
    \/ Update
    \/ ChatGetObject
    \/ ChatCreateUser
    \/ ChatProviderContent
    \/ ChatProviderError
    \/ ChatSave

SpecConv == InitConv /\ [][NextConvo]_vars

Ended == convo.row.status = "ended"

\* the step starts a request op
Starts(op) == convo'.requests = convo.requests + 1 /\ convo'.started = op

\* C30: once the conversation is ended no request (end, chat,
\* generate-summary, update, partial update) makes it active again or adds a
\* message to it; an end and a chat that arrive at an ended conversation are
\* answered with an error and change nothing.
C30_EndedIsFinal ==
    [][Ended =>
         /\ convo'.row.status = "ended"
         /\ convo'.messages = convo.messages
         /\ (Starts("end") \/ Starts("chat")) =>
               /\ convo'.resp.code = 400
               /\ convo'.row = convo.row]_vars

(***************************************************************************)
(* The provider adapters: what a message list becomes on its way to the    *)
(* provider.  A message is a role and a content; the request is recorded   *)
(* as the adapter hands it to the provider library.                        *)
(***************************************************************************)
MaxMsgs == 4

Roles == {"system", "user", "assistant"}

\* the content of the message at each position of the list, all different
ContentAt == << <<"m1">>, <<"m2">>, <<"m3">>, <<"m4">>, <<"m5">>, <<"m6">> >>

MessageLists ==
    {[i \in 1..Len(rs) |-> [role |-> rs[i], content |-> ContentAt[i]]] :
        rs \in SeqsUpTo(Roles, MaxMsgs)}

\* the loop of _chat_gemini lines 128-137 and of
\* _convert_messages_to_gemini_format lines 41-56: every system message
\* assigns system_instruction
RECURSIVE system_instruction(_)
system_instruction(messages) ==
    IF messages = << >> THEN None
    ELSE IF messages[Len(messages)].role = "system"
            THEN messages[Len(messages)].content
            ELSE system_instruction(SubSeq(messages, 1, Len(messages) - 1))

RECURSIVE gemini_history(_)
gemini_history(messages) ==
    IF messages = << >> THEN << >>
    ELSE LET m == Head(messages)
             rest == gemini_history(Tail(messages))
         IN  CASE m.role = "user" -> <<[role |-> "user", parts |-> <<m.content>>]>> \o rest
               [] m.role = "assistant" -> <<[role |-> "model", parts |-> <<m.content>>]>> \o rest
               [] OTHER -> rest

\* ChatService._convert_messages_to_gemini_format
_convert_messages_to_gemini_format(messages) ==
    <<system_instruction(messages), gemini_history(messages)>>

\* lines 152-160 of multi_model_service.py, 99-110 of chat_service.py:
\* start_chat and send_message, or generate_content
GeminiRequest(adapter, sys, history) ==
    IF Len(history) > 1
        THEN [adapter |-> adapter, system_instruction |-> sys, call |-> "send_message",
              history |-> SubSeq(history, 1, Len(history) - 1),
              message |-> history[Len(history)].parts[1]]
        ELSE [adapter |-> adapter, system_instruction |-> sys, call |-> "generate_content",
              history |-> << >>,
              message |-> IF history # << >> THEN history[1].parts[1] ELSE << >>]

\* MultiModelService._chat_gemini
_chat_gemini(messages) ==
    GeminiRequest("gemini", system_instruction(messages), gemini_history(messages))

\* ChatService.chat
ChatService_chat(messages) ==
    LET converted == _convert_messages_to_gemini_format(messages)
    IN  GeminiRequest("chat_service", converted[1], converted[2])

\* MultiModelService._chat_groq: messages=messages
_chat_groq(messages) ==
    [adapter |-> "groq", call |-> "completions", messages |-> messages]

\* _chat_cohere lines 196-205: the last user message
RECURSIVE cohere_message(_)
cohere_message(messages) ==
    IF messages = << >> THEN << >>
    ELSE IF messages[Len(messages)].role = "user"
            THEN messages[Len(messages)].content
            ELSE cohere_message(SubSeq(messages, 1, Len(messages) - 1))

\* _chat_cohere lines 196-205: the assistant messages
RECURSIVE cohere_history(_)
cohere_history(messages) ==
    IF messages = << >> THEN << >>
    ELSE LET m == Head(messages)
             rest == cohere_history(Tail(messages))
         IN  IF m.role = "assistant"
                THEN <<[role |-> "CHATBOT", message |-> m.content]>> \o rest
                ELSE rest

\* MultiModelService._chat_cohere; chat_history if chat_history else None
_chat_cohere(messages) ==
    [adapter |-> "cohere", call |-> "chat", message |-> cohere_message(messages),
     chat_history |-> IF cohere_history(messages) # << >>
                         THEN cohere_history(messages) ELSE None]

InitAdapter ==
    /\ cache = {}
    /\ clock = 1
    /\ nextId = 1
    /\ apiCalls = 0
    /\ budget = [p \in Threads |-> 0]
    /\ th = [p \in Threads |-> Idle]
    /\ hist = NoHist
    /\ rank = NoRank
    /\ qry = NoQry
    /\ svc = NoSvc
    /\ intel = NoIntel
    /\ adp \in {[pc |-> "call", messages |-> ms, request |-> [adapter |-> "none"]] :
                   ms \in MessageLists}
    /\ convo = NoConv

AFrame == UNCHANGED <<cache, clock, nextId, apiCalls, budget, th, hist, rank, qry, svc, intel, convo>>

Sent(request) == adp' = [adp EXCEPT !.pc = "done", !.request = request]

ChatGemini == adp.pc = "call" /\ Sent(_chat_gemini(adp.messages)) /\ AFrame

ChatServiceChat == adp.pc = "call" /\ Sent(ChatService_chat(adp.messages)) /\ AFrame

ChatGroq == adp.pc = "call" /\ Sent(_chat_groq(adp.messages)) /\ AFrame

ChatCohere == adp.pc = "call" /\ Sent(_chat_cohere(adp.messages)) /\ AFrame

NextAdapter ==
    \/ ChatGemini
    \/ ChatServiceChat
    \/ ChatGroq
    \/ ChatCohere

SpecAdapter == InitAdapter /\ [][NextAdapter]_vars

AdapterDone == adp.pc = "done"

IsSystem(m) == m.role = "system"
IsTurn(m) == m.role \in {"user", "assistant"}

SystemMessages == SelectSeq(adp.messages, IsSystem)
Turns == SelectSeq(adp.messages, IsTurn)

\* C23: with more than one system message in the list, a Gemini adapter
\* (MultiModelService or ChatService) uses the first system message as the
\* system instruction and ignores the later ones.
C23_FirstSystemWins ==
    (/\ AdapterDone
     /\ adp.request.adapter \in {"gemini", "chat_service"}
     /\ Len(SystemMessages) > 1)
        => adp.request.system_instruction = SystemMessages[1].content

\* the provider's name of a role
RoleName(adapter, role) ==
    CASE adapter \in {"gemini", "chat_service"} ->
             (IF role = "assistant" THEN "model" ELSE "user")
      [] adapter = "cohere" -> (IF role = "assistant" THEN "CHATBOT" ELSE "USER")
      [] OTHER -> role

\* the turns the request carries as history, as role and content
RequestHistory(req) ==
    CASE req.adapter \in {"gemini", "chat_service"} ->
             [k \in 1..Len(req.history) |->
                 [role |-> req.history[k].role, content |-> req.history[k].parts[1]]]
      [] req.adapter = "cohere" ->
             [k \in 1..Len(req.chat_history) |->
                 [role |-> req.chat_history[k].role,
                  content |-> req.chat_history[k].message]]
      [] OTHER ->
             LET ts == SelectSeq(req.messages, IsTurn)
             IN  SubSeq(ts, 1, Len(ts) - 1)

\* the active prompt of the request
RequestPrompt(req) ==
    CASE req.adapter = "groq" ->
             LET ts == SelectSeq(req.messages, IsTurn)
             IN  IF ts = << >> THEN << >> ELSE ts[Len(ts)].content
      [] OTHER -> req.message

\* a call without history
SingleShot(req) ==
    CASE req.adapter \in {"gemini", "chat_service"} -> req.call = "generate_content"
      [] req.adapter = "cohere" -> req.chat_history = None
      [] OTHER -> RequestHistory(req) = << >>

\* C24: with more than one user/assistant turn every adapter sends all
\* turns but the last as history, in order and under the provider's role
\* names, and the last turn as the prompt, dropping none; with zero or one
\* turn the call is single-shot.
C24_HistoryAndPrompt ==
    AdapterDone =>
        LET req == adp.request
        IN  IF Len(Turns) > 1
               THEN /\ RequestHistory(req) =
                          [k \in 1..(Len(Turns) - 1) |->
                              [role |-> RoleName(req.adapter, Turns[k].role),
                               content |-> Turns[k].content]]
                    /\ RequestPrompt(req) = Turns[Len(Turns)].content
                    /\ ~SingleShot(req)
               ELSE SingleShot(req)

====
